---- MODULE Spec2Model ----
(***************************************************************************)
(* Model of the schema-driven feature pipeline of backend/ml/features.py   *)
(* (class FeatureEngineer) and backend/ml/config.py (class SchemaConfig).  *)
(*                                                                         *)
(* A table (pandas DataFrame) is a record                                  *)
(*     [cols |-> sequence of column names, in column order,                *)
(*      idx  |-> sequence of row labels (the DataFrame index),             *)
(*      val  |-> function: column name -> sequence of cell values]         *)
(* A cell is an integer or the missing value NaN.  Real-valued results     *)
(* (means, ratios, ...) are kept as integers rounded down; what the model  *)
(* keeps exactly is which cells are missing, the column names, the row     *)
(* labels and every value that the code only copies (lag, fill).           *)
(*                                                                         *)
(* Spec is the feature pipeline: one call of engineer_features, stage by   *)
(* stage, or one direct call of select_features.  SchemaSpec is the        *)
(* configuration layer: create_default_config and the queries of the       *)
(* schema it builds.                                                       *)
(***************************************************************************)
EXTENDS Integers, Sequences, FiniteSets, TLC

VARIABLES
    pc,                \* position of the call in progress ("idle" between calls)
    config,            \* self.config: [schema, sampling_interval_minutes]
    args,              \* arguments of the call in progress
    df,                \* the local table df of the call in progress
    stages,            \* history: the stages the call has completed, in order
                       \* (for create_default_config: the messages it logged)
    snap,              \* history: tables and lists seen by the call (see NoSnap)
    out,               \* what the call returned: [df, feature_columns], or NoOut
    err,               \* the error the call raised, or "none"
    feature_selector,  \* self.feature_selector
    earlier            \* history: the call made before this one on the same
                       \* FeatureEngineer (see NoEarlier)

vars == <<pc, config, args, df, stages, snap, out, err, feature_selector, earlier>>

----------------------------------------------------------------------------
(* Bounds of the model. *)

\* Largest number of rows of an input table.
MaxRows == 3

\* Largest number of missing cells of an input status table.
MaxMissing == 3

\* Largest k of a direct call of select_features.
MaxK == 3

----------------------------------------------------------------------------
(* Cell values and series (pandas Series as sequences). *)

\* The missing value (numpy.nan / None / NaT).
NaN == -1000000

Range(s) == {s[i] : i \in 1..Len(s)}

Max(S) == CHOOSE x \in S : \A y \in S : y <= x

Min(S) == CHOOSE x \in S : \A y \in S : x <= y

\* The positions i of 1..n with keep[i], in ascending order.
KeptPositions(n, keep) ==
    LET F[i \in 0..n] ==
            IF i = 0 THEN <<>>
            ELSE IF keep[i] THEN Append(F[i-1], i) ELSE F[i-1]
    IN  F[n]

\* Series.shift(periods): row i takes the value of row i - periods.
Shift(s, periods) ==
    [i \in 1..Len(s) |-> IF i - periods >= 1 /\ i - periods <= Len(s)
                         THEN s[i - periods] ELSE NaN]

\* Mutant of FfillSeries: a cell takes the value of the row before it
\* whenever that row holds one, also when the cell itself holds a value.
FfillSeriesOverwrites(s) ==
    [i \in 1..Len(s) |-> IF i > 1 /\ s[i-1] # NaN THEN s[i-1] ELSE s[i]]

\* fillna(method='ffill') on one column: the nearest preceding valid value.
FfillSeries(s) ==
    [i \in 1..Len(s) |->
        LET prev == {j \in 1..i : s[j] # NaN}
        IN  IF prev = {} THEN NaN ELSE s[Max(prev)]]

\* Mutant of BfillSeries: no cell is filled.
BfillSeriesNone(s) == s

\* fillna(method='bfill') on one column: the nearest following valid value.
BfillSeries(s) ==
    [i \in 1..Len(s) |->
        LET next == {j \in i..Len(s) : s[j] # NaN}
        IN  IF next = {} THEN NaN ELSE s[Min(next)]]

----------------------------------------------------------------------------
(* Tables (pandas DataFrame). *)

NRows(t) == Len(t.idx)

HasColumn(t, c) == c \in Range(t.cols)

\* df[name] = series: a new column is appended, an existing one overwritten.
SetColumn(t, name, series) ==
    [cols |-> IF HasColumn(t, name) THEN t.cols ELSE Append(t.cols, name),
     idx  |-> t.idx,
     val  |-> [c \in Range(t.cols) \cup {name} |->
                  IF c = name THEN series ELSE t.val[c]]]

\* The rows of t at the given positions, labels kept.
TakeRows(t, ks) ==
    [cols |-> t.cols,
     idx  |-> [j \in 1..Len(ks) |-> t.idx[ks[j]]],
     val  |-> [c \in Range(t.cols) |-> [j \in 1..Len(ks) |-> t.val[c][ks[j]]]]]

\* df[list of names]: the named columns in the order of the list.
TakeColumns(t, names) ==
    [cols |-> names,
     idx  |-> t.idx,
     val  |-> [c \in Range(names) |-> t.val[c]]]

\* Number of non-missing cells of row i.
NonNullCount(t, i) == Cardinality({j \in 1..Len(t.cols) : t.val[t.cols[j]][i] # NaN})

\* df.dropna(thresh=thresh): keep the rows with at least thresh non-missing cells.
DropnaThresh(t, thresh) ==
    TakeRows(t, KeptPositions(NRows(t),
                 [i \in 1..NRows(t) |-> NonNullCount(t, i) >= thresh]))

\* df.fillna(method='ffill')
Ffill(t) == [t EXCEPT !.val = [c \in Range(t.cols) |-> FfillSeries(t.val[c])]]

\* df.fillna(method='bfill')
Bfill(t) == [t EXCEPT !.val = [c \in Range(t.cols) |-> BfillSeries(t.val[c])]]

\* Mutant of DropnaAny: every row is kept.
DropnaAnyKeepsRows(t) == t

\* df.dropna(): keep the rows with no missing cell.
DropnaAny(t) ==
    TakeRows(t, KeptPositions(NRows(t),
                 [i \in 1..NRows(t) |-> NonNullCount(t, i) = Len(t.cols)]))

----------------------------------------------------------------------------
(* The cleaning steps of engineer_features. *)

\* int(len(df.columns) * 0.7).  The floating-point product rounds down to
\* floor(7n/10) for every n < 90 (at n = 90 it gives 62).
CleanThresh(t) == (7 * Len(t.cols)) \div 10

\* Mutant of Cleaner: the fills run before the 70% row drop.
CleanerFillsFirst(t) == DropnaAny(DropnaThresh(Bfill(Ffill(t)), CleanThresh(t)))

\* The four cleaning steps in the order of the code.
Cleaner(t) == DropnaAny(Bfill(Ffill(DropnaThresh(t, CleanThresh(t)))))

----------------------------------------------------------------------------
(* Arithmetic on cells.  A missing operand gives a missing result. *)

\* 1 / 1e-8: what a division by (0 + 1e-8) multiplies by.
InvEpsilon == 100000000

\* An infinite result (x / 0 in pandas arithmetic); dropna keeps it.
Inf == 1000000000

FoldLeft(Op(_, _), base, s) ==
    LET F[i \in 0..Len(s)] == IF i = 0 THEN base ELSE Op(F[i-1], s[i])
    IN  F[Len(s)]

Abs(x) == IF x < 0 THEN -x ELSE x

\* Integer square root, rounded down.
ISqrt(n) == CHOOSE r \in 0..n : r * r <= n /\ (r + 1) * (r + 1) > n

Sub(a, b) == IF a = NaN \/ b = NaN THEN NaN ELSE a - b

Mul(a, b) == IF a = NaN \/ b = NaN THEN NaN ELSE a * b

\* a / (b + 1e-8), rounded down.
DivEps(a, b) ==
    IF a = NaN \/ b = NaN THEN NaN
    ELSE IF b = 0 THEN a * InvEpsilon ELSE a \div b

\* The positions of P that hold a value in s.
ValidAt(s, P) == {j \in P : j >= 1 /\ j <= Len(s) /\ s[j] # NaN}

RECURSIVE SumAt(_, _)
SumAt(s, P) ==
    IF P = {} THEN 0
    ELSE LET j == CHOOSE k \in P : TRUE IN s[j] + SumAt(s, P \ {j})

\* Statistics of the values of s at the positions P, missing ones skipped
\* (skipna).  P is any set of positions.
MeanAt(s, P) ==
    LET V == ValidAt(s, P)
    IN  IF V = {} THEN NaN ELSE SumAt(s, V) \div Cardinality(V)

\* Mutant of StdAt: the population standard deviation (ddof = 0), which is
\* zero for a single value.
StdAtPopulation(s, P) ==
    LET V  == ValidAt(s, P)
        n  == Cardinality(V)
        sq == [i \in 1..Len(s) |-> IF i \in V THEN s[i] * s[i] ELSE 0]
    IN  IF n < 1 THEN NaN
        ELSE ISqrt((n * SumAt(sq, V) - SumAt(s, V) * SumAt(s, V)) \div (n * n))

\* Sample standard deviation (ddof = 1): missing with fewer than 2 values.
StdAt(s, P) ==
    LET V  == ValidAt(s, P)
        n  == Cardinality(V)
        sq == [i \in 1..Len(s) |-> IF i \in V THEN s[i] * s[i] ELSE 0]
    IN  IF n < 2 THEN NaN
        ELSE ISqrt((n * SumAt(sq, V) - SumAt(s, V) * SumAt(s, V)) \div (n * (n - 1)))

MinAt(s, P) ==
    LET V == ValidAt(s, P) IN IF V = {} THEN NaN ELSE Min({s[i] : i \in V})

\* Mutant of MaxAt: the oldest value of the window.
MaxAtOldest(s, P) ==
    LET V == ValidAt(s, P) IN IF V = {} THEN NaN ELSE s[Min(V)]

MaxAt(s, P) ==
    LET V == ValidAt(s, P) IN IF V = {} THEN NaN ELSE Max({s[i] : i \in V})

\* The values at V in ascending order (with repetitions).
SortedAt(s, V) ==
    [a \in 1..Cardinality(V) |->
        s[CHOOSE i \in V :
              Cardinality({j \in V : s[j] < s[i] \/ (s[j] = s[i] /\ j < i)}) = a - 1]]

\* Median (the mean of the two middle values for an even count).
MedianAt(s, P) ==
    LET V == ValidAt(s, P)
        n == Cardinality(V)
        q == SortedAt(s, V)
    IN  IF n = 0 THEN NaN
        ELSE IF n % 2 = 1 THEN q[(n + 1) \div 2]
        ELSE (q[n \div 2] + q[n \div 2 + 1]) \div 2

\* The trailing window of w rows ending at row i.
Window(i, w) == {j \in 1..i : j > i - w}

\* Series.rolling(window=w, min_periods=m).stat(): missing while the window
\* holds fewer than m values.
Rolling(Stat(_, _), s, w, m) ==
    [i \in 1..Len(s) |->
        IF Cardinality(ValidAt(s, Window(i, w))) < m THEN NaN
        ELSE Stat(s, Window(i, w))]

\* Series.diff()
Diff(s) == [i \in 1..Len(s) |-> IF i = 1 THEN NaN ELSE Sub(s[i], s[i-1])]

\* Series.pct_change(): the series is forward filled first (fill_method
\* 'pad'), then value[i] / value[i-1] - 1; a zero divisor gives an infinite
\* value (a missing one for 0 / 0).
PctChange(s) ==
    LET f == FfillSeries(s)
    IN  [i \in 1..Len(s) |->
            IF i = 1 THEN NaN
            ELSE IF f[i] = NaN \/ f[i-1] = NaN THEN NaN
            ELSE IF f[i-1] = 0
                 THEN (IF f[i] = 0 THEN NaN ELSE IF f[i] > 0 THEN Inf ELSE -Inf)
            ELSE (f[i] \div f[i-1]) - 1]

----------------------------------------------------------------------------
(* SchemaConfig *)

\* SchemaConfig.get_mapped_column
get_mapped_column(schema, original_name) ==
    IF original_name \in DOMAIN schema.column_mapping
    THEN schema.column_mapping[original_name]
    ELSE original_name

\* The names get_all_feature_columns lists for one continuous column: the
\* mapped name, one name per lag, four names per window.
ContinuousFeatureNames(schema, col) ==
    LET mapped_col == get_mapped_column(schema, col)
    IN  <<mapped_col>>
        \o [l \in 1..Len(schema.lag_seconds) |->
               mapped_col \o "_lag_" \o ToString(schema.lag_seconds[l]) \o "s"]
        \o FoldLeft(LAMBDA features, window :
                        features \o
                        <<mapped_col \o "_rolling_mean_" \o ToString(window),
                          mapped_col \o "_rolling_std_" \o ToString(window),
                          mapped_col \o "_rolling_min_" \o ToString(window),
                          mapped_col \o "_rolling_max_" \o ToString(window)>>,
                    <<>>, schema.rolling_windows)

\* Mutant of get_all_feature_columns: the boolean columns come first.
get_all_feature_columns_booleans_first(schema) ==
    [b \in 1..Len(schema.boolean_columns) |->
        get_mapped_column(schema, schema.boolean_columns[b])]
    \o FoldLeft(LAMBDA features, col : features \o ContinuousFeatureNames(schema, col),
                <<>>, schema.continuous_columns)

\* SchemaConfig.get_all_feature_columns
get_all_feature_columns(schema) ==
    FoldLeft(LAMBDA features, col : features \o ContinuousFeatureNames(schema, col),
             <<>>, schema.continuous_columns)
    \o [b \in 1..Len(schema.boolean_columns) |->
           get_mapped_column(schema, schema.boolean_columns[b])]

\* df.rename(columns=mapping)
RenameColumns(t, mapping) ==
    LET new(c) == IF c \in DOMAIN mapping THEN mapping[c] ELSE c
    IN  [cols |-> [j \in 1..Len(t.cols) |-> new(t.cols[j])],
         idx  |-> t.idx,
         val  |-> [c \in {new(x) : x \in Range(t.cols)} |->
                      t.val[CHOOSE x \in Range(t.cols) : new(x) = c]]]

----------------------------------------------------------------------------
(* The generator stages of FeatureEngineer.  cfg is self.config. *)

\* Mutant of LagPeriod: the quotient without the floor of 1.
LagPeriodNoFloor(cfg, lag_sec) == lag_sec \div (cfg.sampling_interval_minutes * 60)

\* max(1, lag_sec // sampling_interval)
LagPeriod(cfg, lag_sec) ==
    LET sampling_interval == cfg.sampling_interval_minutes * 60
        p == lag_sec \div sampling_interval
    IN  IF p >= 1 THEN p ELSE 1

LagName(mapped_col, lag_sec) == mapped_col \o "_lag_" \o ToString(lag_sec) \o "s"

\* The lag columns of one column.
LagColumn(cfg, t, mapped_col) ==
    FoldLeft(LAMBDA d, lag_sec :
                SetColumn(d, LagName(mapped_col, lag_sec),
                          Shift(d.val[mapped_col], LagPeriod(cfg, lag_sec))),
             t, cfg.schema.lag_seconds)

create_lag_features(cfg, t) ==
    FoldLeft(LAMBDA d, col :
                IF HasColumn(d, get_mapped_column(cfg.schema, col))
                THEN LagColumn(cfg, d, get_mapped_column(cfg.schema, col))
                ELSE d,
             t, cfg.schema.continuous_columns)

RollingName(mapped_col, stat, window) ==
    mapped_col \o "_rolling_" \o stat \o "_" \o ToString(window)

\* One rolling statistic of a column: rolling(window=w, min_periods=1).stat()
RollingStat(stat, s, w) ==
    CASE stat = "mean"   -> Rolling(MeanAt, s, w, 1)
      [] stat = "std"    -> Rolling(StdAt, s, w, 1)
      [] stat = "min"    -> Rolling(MinAt, s, w, 1)
      [] stat = "max"    -> Rolling(MaxAt, s, w, 1)
      [] stat = "median" -> Rolling(MedianAt, s, w, 1)

\* The columns the rolling stage assigns per window, in the order of the code.
RollingStats == <<"mean", "std", "min", "max", "median">>

\* The rolling columns of one column and one window.
RollingWindow(t, mapped_col, w) ==
    FoldLeft(LAMBDA d, stat :
                SetColumn(d, RollingName(mapped_col, stat, w),
                          RollingStat(stat, d.val[mapped_col], w)),
             t, RollingStats)

\* The rolling columns of one column.
RollingColumn(cfg, t, mapped_col) ==
    FoldLeft(LAMBDA d, w : RollingWindow(d, mapped_col, w),
             t, cfg.schema.rolling_windows)

create_rolling_features(cfg, t) ==
    FoldLeft(LAMBDA d, col :
                IF HasColumn(d, get_mapped_column(cfg.schema, col))
                THEN RollingColumn(cfg, d, get_mapped_column(cfg.schema, col))
                ELSE d,
             t, cfg.schema.continuous_columns)

\* One rate-of-change column of mapped_col, computed from the table so far.
RateOfChangeSeries(d, mapped_col, suffix) ==
    CASE suffix = "_roc"          -> Diff(d.val[mapped_col])
      [] suffix = "_acceleration" -> Diff(d.val[mapped_col \o "_roc"])
      [] suffix = "_pct_change"   -> PctChange(d.val[mapped_col])

RateOfChangeColumn(t, mapped_col) ==
    FoldLeft(LAMBDA d, suffix :
                SetColumn(d, mapped_col \o suffix,
                          RateOfChangeSeries(d, mapped_col, suffix)),
             t, <<"_roc", "_acceleration", "_pct_change">>)

\* Mutant of create_rate_of_change_features: a declared column that the
\* table does not hold gets a first-difference column of missing values.
create_rate_of_change_features_absent(cfg, t) ==
    FoldLeft(LAMBDA d, col :
                IF HasColumn(d, get_mapped_column(cfg.schema, col))
                THEN RateOfChangeColumn(d, get_mapped_column(cfg.schema, col))
                ELSE SetColumn(d, get_mapped_column(cfg.schema, col) \o "_roc",
                               [i \in 1..NRows(d) |-> NaN]),
             t, cfg.schema.continuous_columns)

create_rate_of_change_features(cfg, t) ==
    FoldLeft(LAMBDA d, col :
                IF HasColumn(d, get_mapped_column(cfg.schema, col))
                THEN RateOfChangeColumn(d, get_mapped_column(cfg.schema, col))
                ELSE d,
             t, cfg.schema.continuous_columns)

\* The mapped continuous columns present in the table, in declared order.
PresentContinuous(cfg, t) ==
    LET mapped == [j \in 1..Len(cfg.schema.continuous_columns) |->
                      get_mapped_column(cfg.schema, cfg.schema.continuous_columns[j])]
    IN  SelectSeq(mapped, LAMBDA c : HasColumn(t, c))

key_interactions ==
    << <<"temperature", "pressure">>, <<"current", "voltage">>,
       <<"vibration", "rpm">>, <<"flow_rate", "pressure">> >>

\* The series of op(a[i], b[i]).
Zip(Op(_, _), a, b) == [i \in 1..Len(a) |-> Op(a[i], b[i])]

InteractionSeries(d, col1, col2, kind) ==
    CASE kind = "mult"  -> Zip(Mul, d.val[col1], d.val[col2])
      [] kind = "ratio" -> Zip(DivEps, d.val[col1], d.val[col2])
      [] kind = "diff"  -> Zip(Sub, d.val[col1], d.val[col2])

InteractionPair(t, col1, col2) ==
    FoldLeft(LAMBDA d, kind :
                SetColumn(d, col1 \o "_" \o col2 \o "_" \o kind,
                          InteractionSeries(d, col1, col2, kind)),
             t, <<"mult", "ratio", "diff">>)

create_interaction_features(cfg, t) ==
    FoldLeft(LAMBDA d, pair :
                IF /\ HasColumn(d, get_mapped_column(cfg.schema, pair[1]))
                   /\ HasColumn(d, get_mapped_column(cfg.schema, pair[2]))
                THEN InteractionPair(d, get_mapped_column(cfg.schema, pair[1]),
                                        get_mapped_column(cfg.schema, pair[2]))
                ELSE d,
             t, key_interactions)

\* Row i of the columns cs, as a series.
RowOf(t, cs, i) == [j \in 1..Len(cs) |-> t.val[cs[j]][i]]

\* df[cs].stat(axis=1)
RowWise(Stat(_, _), t, cs) ==
    [i \in 1..NRows(t) |-> Stat(RowOf(t, cs, i), 1..Len(cs))]

StatisticalSeries(d, continuous_cols, name) ==
    CASE name = "mean_all_continuous" -> RowWise(MeanAt, d, continuous_cols)
      [] name = "std_all_continuous"  -> RowWise(StdAt, d, continuous_cols)
      [] name = "min_all_continuous"  -> RowWise(MinAt, d, continuous_cols)
      [] name = "max_all_continuous"  -> RowWise(MaxAt, d, continuous_cols)
      [] name = "range_all_continuous" ->
             Zip(Sub, d.val["max_all_continuous"], d.val["min_all_continuous"])
      [] name = "cv_all_continuous" ->
             Zip(DivEps, d.val["std_all_continuous"], d.val["mean_all_continuous"])

create_statistical_features(cfg, t) ==
    IF Len(PresentContinuous(cfg, t)) >= 2
    THEN FoldLeft(LAMBDA d, name :
                     SetColumn(d, name,
                               StatisticalSeries(d, PresentContinuous(cfg, t), name)),
                  t, <<"mean_all_continuous", "std_all_continuous",
                       "min_all_continuous", "max_all_continuous",
                       "range_all_continuous", "cv_all_continuous">>)
    ELSE t

\* sin and cos of 2*pi*i/n for i = 0..n-1, in thousandths, rounded down.
SinMilli24 == <<0, 258, 500, 707, 866, 965, 1000, 965, 866, 707, 500, 258, 0,
                -259, -500, -708, -867, -966, -1000, -966, -867, -708, -500, -259>>

CosMilli24 == <<1000, 965, 866, 707, 500, 258, 0, -259, -500, -708, -867, -966,
                -1000, -966, -867, -708, -500, -259, 0, 258, 500, 707, 866, 965>>

SinMilli7 == <<0, 781, 974, 433, -434, -975, -782>>

CosMilli7 == <<1000, 623, -223, -901, -901, -223, 623>>

SinMilli12 == <<0, 500, 866, 1000, 866, 500, 0, -500, -867, -1000, -867, -500>>

CosMilli12 == <<1000, 866, 500, 0, -500, -867, -1000, -867, -500, 0, 500, 866>>

\* The series of f(s[i]), missing where s[i] is missing.
Map(F(_), s) == [i \in 1..Len(s) |-> IF s[i] = NaN THEN NaN ELSE F(s[i])]

\* One time column, computed from the table so far.  A timestamp cell is the
\* number of minutes since 2024-01-01 00:00 (a Monday); input timestamps lie
\* in January 2024.
TimeSeries(d, timestamp_col, name) ==
    CASE name = "hour"         -> Map(LAMBDA m : (m \div 60) % 24, d.val[timestamp_col])
      [] name = "day_of_week"  -> Map(LAMBDA m : (m \div 1440) % 7, d.val[timestamp_col])
      [] name = "day_of_month" -> Map(LAMBDA m : 1 + (m \div 1440), d.val[timestamp_col])
      [] name = "month"        -> Map(LAMBDA m : 1, d.val[timestamp_col])
      [] name = "quarter"      -> Map(LAMBDA m : 1, d.val[timestamp_col])
      [] name = "hour_sin"     -> Map(LAMBDA h : SinMilli24[h + 1], d.val["hour"])
      [] name = "hour_cos"     -> Map(LAMBDA h : CosMilli24[h + 1], d.val["hour"])
      [] name = "day_sin"      -> Map(LAMBDA w : SinMilli7[w + 1], d.val["day_of_week"])
      [] name = "day_cos"      -> Map(LAMBDA w : CosMilli7[w + 1], d.val["day_of_week"])
      [] name = "month_sin"    -> Map(LAMBDA m : SinMilli12[(m % 12) + 1], d.val["month"])
      [] name = "month_cos"    -> Map(LAMBDA m : CosMilli12[(m % 12) + 1], d.val["month"])
      [] name = "time_since_start" ->
             Map(LAMBDA m : (m - MinAt(d.val[timestamp_col], 1..NRows(d))) * 60,
                 d.val[timestamp_col])

\* The columns the time stage assigns, in the order of the code.
TimeColumns ==
    <<"hour", "day_of_week", "day_of_month", "month", "quarter",
      "hour_sin", "hour_cos", "day_sin", "day_cos", "month_sin", "month_cos",
      "time_since_start">>

\* A timestamp cell that holds text which is not a date.
Unparsable == -2000000

\* pd.to_datetime(df[timestamp_col]) raises (a ValueError) on a cell that it
\* cannot parse.
TimeFails(cfg, t) ==
    /\ HasColumn(t, cfg.schema.timestamp_column)
    /\ \E i \in 1..NRows(t) : t.val[cfg.schema.timestamp_column][i] = Unparsable

create_time_based_features(cfg, t) ==
    IF HasColumn(t, cfg.schema.timestamp_column)
    THEN FoldLeft(LAMBDA d, name :
                     SetColumn(d, name, TimeSeries(d, cfg.schema.timestamp_column, name)),
                  t, TimeColumns)
    ELSE t

\* |x|, missing for a missing x.
AbsCell(x) == IF x = NaN THEN NaN ELSE Abs(x)

AnomalySeries(d, mapped_col, suffix) ==
    CASE suffix = "_z_score" ->
             [i \in 1..NRows(d) |->
                 DivEps(Sub(d.val[mapped_col][i], MeanAt(d.val[mapped_col], 1..NRows(d))),
                        StdAt(d.val[mapped_col], 1..NRows(d)))]
      [] suffix = "_anomaly" ->
             \* (np.abs(z) > 3).astype(int): a missing z compares false.
             [i \in 1..NRows(d) |->
                 IF d.val[mapped_col \o "_z_score"][i] # NaN
                    /\ Abs(d.val[mapped_col \o "_z_score"][i]) > 3 THEN 1 ELSE 0]
      [] suffix = "_distance_from_mean" ->
             Zip(LAMBDA x, m : AbsCell(Sub(x, m)),
                 d.val[mapped_col], Rolling(MeanAt, d.val[mapped_col], 20, 1))

AnomalyColumn(t, mapped_col) ==
    FoldLeft(LAMBDA d, suffix :
                SetColumn(d, mapped_col \o suffix, AnomalySeries(d, mapped_col, suffix)),
             t, <<"_z_score", "_anomaly", "_distance_from_mean">>)

create_anomaly_features(cfg, t) ==
    FoldLeft(LAMBDA d, col :
                IF HasColumn(d, get_mapped_column(cfg.schema, col))
                THEN AnomalyColumn(d, get_mapped_column(cfg.schema, col))
                ELSE d,
             t, cfg.schema.continuous_columns)

\* Series.quantile(q/100) with linear interpolation; missing values skipped.
QuantileAt(s, pct) ==
    LET V  == ValidAt(s, 1..Len(s))
        n  == Cardinality(V)
        q  == SortedAt(s, V)
        lo == ((n - 1) * pct) \div 100
        fr == ((n - 1) * pct) % 100
    IN  IF n = 0 THEN NaN
        ELSE IF fr = 0 THEN q[lo + 1]
        ELSE q[lo + 1] + (fr * (q[lo + 2] - q[lo + 1])) \div 100

\* np.polyfit(range(len(x)), x, 1)[0] over the rows of P: least-squares slope.
SlopeAt(s, P) ==
    LET n   == Cardinality(P)
        lo  == Min(P)
        x   == [i \in 1..Len(s) |-> i - lo]
        xy  == [i \in 1..Len(s) |-> (i - lo) * (IF i \in P THEN s[i] ELSE 0)]
        xx  == [i \in 1..Len(s) |-> (i - lo) * (i - lo)]
    IN  IF n > 1
        THEN (n * SumAt(xy, P) - SumAt(x, P) * SumAt(s, P))
                 \div (n * SumAt(xx, P) - SumAt(x, P) * SumAt(x, P))
        ELSE 0

\* max(0, x), missing for a missing x (np.maximum).
PositivePart(x) == IF x = NaN THEN NaN ELSE IF x > 0 THEN x ELSE 0

\* One domain column, computed from the table so far; a and b are the mapped
\* input columns of its group.
DomainSeries(d, a, b, name) ==
    CASE name = "power"        -> Zip(Mul, d.val[a], d.val[b])
      [] name = "power_factor" ->
             Zip(DivEps, d.val["power"], Zip(Mul, d.val[a], d.val[b]))
      [] name = "temp_efficiency" -> Map(LAMBDA x : DivEps(1, x), d.val[a])
      [] name = "temp_stress" ->
             Map(LAMBDA x : PositivePart(Sub(x, MedianAt(d.val[a], 1..NRows(d)))),
                 d.val[a])
      [] name = "vibration_health" ->
             Map(LAMBDA x : Sub(1, DivEps(x, QuantileAt(d.val[a], 95))), d.val[a])
      \* rolling(window=10): min_periods defaults to the window size.
      [] name = "vibration_trend" -> Rolling(SlopeAt, d.val[a], 10, 10)
      [] name = "flow_efficiency" -> Zip(DivEps, d.val[a], d.val[b])
      [] name = "hydraulic_power" -> Zip(Mul, d.val[a], d.val[b])

\* The groups of the domain stage, in the order of the code: the schema
\* names of the inputs (the second repeats the first for a single input) and
\* the columns assigned.
DomainGroups ==
    << <<"current", "voltage", <<"power", "power_factor">> >>,
       <<"temperature", "temperature", <<"temp_efficiency", "temp_stress">> >>,
       <<"vibration", "vibration", <<"vibration_health", "vibration_trend">> >>,
       <<"flow_rate", "pressure", <<"flow_efficiency", "hydraulic_power">> >> >>

DomainGroup(t, a, b, names) ==
    FoldLeft(LAMBDA d, name : SetColumn(d, name, DomainSeries(d, a, b, name)),
             t, names)

create_domain_specific_features(cfg, t) ==
    FoldLeft(LAMBDA d, g :
                IF /\ HasColumn(d, get_mapped_column(cfg.schema, g[1]))
                   /\ HasColumn(d, get_mapped_column(cfg.schema, g[2]))
                THEN DomainGroup(d, get_mapped_column(cfg.schema, g[1]),
                                    get_mapped_column(cfg.schema, g[2]), g[3])
                ELSE d,
             t, DomainGroups)

----------------------------------------------------------------------------
(* FeatureEngineer.select_features *)

NoTable == [cols |-> <<>>, idx |-> <<>>, val |-> <<>>]

\* self.feature_selector = None
NoSelector == [k |-> -1, scores |-> <<>>]

\* Mutant of get_support: no special case for k = 0, where the slice [-0:]
\* is the whole sorted array.
get_support_zero_slice(scores, k) ==
    KeptPositions(Len(scores),
        [i \in 1..Len(scores) |->
            k = 0 \/ Cardinality({j \in 1..Len(scores) :
                                     \/ scores[j] > scores[i]
                                     \/ (scores[j] = scores[i] /\ j > i)}) < k])

\* Mutant of get_support: the first k indices of the ascending sort, the
\* lowest scores.
get_support_lowest(scores, k) ==
    IF k = 0 THEN <<>>
    ELSE KeptPositions(Len(scores),
             [i \in 1..Len(scores) |->
                 Cardinality({j \in 1..Len(scores) :
                                 \/ scores[j] < scores[i]
                                 \/ (scores[j] = scores[i] /\ j < i)}) < k])

\* SelectKBest.get_support(indices=True): no index for k = 0, otherwise the
\* last k indices of a stable ascending sort of the scores, reported in
\* ascending index order.
get_support(scores, k) ==
    IF k = 0 THEN <<>>
    ELSE KeptPositions(Len(scores),
             [i \in 1..Len(scores) |->
                 Cardinality({j \in 1..Len(scores) :
                                 \/ scores[j] > scores[i]
                                 \/ (scores[j] = scores[i] /\ j > i)}) < k])

\* The rows of the table with no missing candidate feature and no missing target.
ScoredRows(t, target_col, feature_columns) ==
    KeptPositions(NRows(t),
        [i \in 1..NRows(t) |->
            /\ t.val[target_col][i] # NaN
            /\ \A j \in 1..Len(feature_columns) : t.val[feature_columns[j]][i] # NaN])

\* Mutant of SelectedTable: the table is returned with all its columns.
SelectedTableKeepsAll(cfg, t, target_col, selected_features) == t

\* Mutant of SelectedTable: the rows with a missing cell outside the
\* timestamp are left out of the returned table as well.
SelectedTableScoredRows(cfg, t, target_col, selected_features) ==
    TakeRows(TakeColumns(t, selected_features \o <<target_col, cfg.schema.timestamp_column>>),
             KeptPositions(NRows(t),
                 [i \in 1..NRows(t) |->
                     \A c \in Range(t.cols) \ {cfg.schema.timestamp_column} :
                         t.val[c][i] # NaN]))

\* df_selected = df.copy()[selected_features + [target_col, timestamp_column]]
SelectedTable(cfg, t, target_col, selected_features) ==
    TakeColumns(t, selected_features \o <<target_col, cfg.schema.timestamp_column>>)

\* min(k, len(feature_columns))
SelectorK(k, feature_columns) ==
    IF k <= Len(feature_columns) THEN k ELSE Len(feature_columns)

\* Mutant of KnownMethods: chi2 is taken for a test that exists.
KnownMethodsWithChi2 == {"f_classif", "mutual_info", "chi2"}

\* The methods that select_features maps to a score function.
KnownMethods == {"f_classif", "mutual_info"}

\* select_features(df, target_col, feature_columns, k, method), where scores
\* is what the score function returns for the candidates.  The result is
\* [err, df, selected, selector]: err is "none" when the call returns, and
\* selector is the new value of self.feature_selector.
select_features(cfg, old_selector, t, target_col, feature_columns, k, method, scores) ==
    LET failed(e) == [err |-> e, df |-> NoTable, selected |-> <<>>,
                      selector |-> old_selector]
        rows      == ScoredRows(t, target_col, feature_columns)
        kk        == SelectorK(k, feature_columns)
        selected_features ==
            LET sup == get_support(scores, kk)
            IN  [j \in 1..Len(sup) |-> feature_columns[sup[j]]]
    IN  IF \E j \in 1..Len(feature_columns) : ~HasColumn(t, feature_columns[j])
            THEN failed("KeyError")
        ELSE IF ~HasColumn(t, target_col) THEN failed("KeyError")
        ELSE IF method \notin KnownMethods THEN failed("ValueError")
        \* SelectKBest.fit: at least one sample and one feature, finite
        \* values, 0 <= k.
        ELSE IF Len(rows) = 0 \/ Len(feature_columns) = 0 \/ kk < 0
            THEN failed("ValueError")
        ELSE IF \E j \in 1..Len(feature_columns) : \E i \in Range(rows) :
                    Abs(t.val[feature_columns[j]][i]) = Inf
            THEN failed("ValueError")
        ELSE IF ~HasColumn(t, cfg.schema.timestamp_column) THEN failed("KeyError")
        ELSE [err      |-> "none",
              df       |-> SelectedTable(cfg, t, target_col, selected_features),
              selected |-> selected_features,
              selector |-> [k |-> kk, scores |-> scores]]

----------------------------------------------------------------------------
(* The configurations and input tables of the model. *)

NoMapping == [c \in {} |-> c]

\* OrganizationConfig: the schema (SchemaConfig) and data.sampling_interval_minutes.
\* The first is the default schema cut down to one lag and one window; the
\* others vary the lags, the windows, the interval and the renaming, and
\* declare a continuous column that the tables do not hold.
Configs ==
    LET schema(cc, mapping, lags, windows) ==
            [continuous_columns |-> cc,
             boolean_columns    |-> <<"pump_status", "valve_open">>,
             column_mapping     |-> mapping,
             lag_seconds        |-> lags,
             rolling_windows    |-> windows,
             target_column      |-> "failure_indicator",
             timestamp_column   |-> "timestamp"]
    IN  { [schema |-> schema(<<"temperature">>, NoMapping, <<300>>, <<5>>),
           sampling_interval_minutes |-> 5],
          [schema |-> schema(<<"temperature", "rpm">>, NoMapping, <<60, 600>>, <<2>>),
           sampling_interval_minutes |-> 5],
          [schema |-> schema(<<"temp_raw">>, "temp_raw" :> "temperature", <<120, 60>>, <<>>),
           sampling_interval_minutes |-> 1] }

\* The series of n cells, each missing or one of vals.
SeriesOver(n, vals) == [1..n -> vals \cup {NaN}]

\* A sensor table of n rows sampled every 5 minutes: timestamp, one
\* continuous column under its raw name, the target.
SensorTables(cfg, n) ==
    LET raw == cfg.schema.continuous_columns[1]
    IN  { [cols |-> <<"timestamp", raw, "failure_indicator">>,
           idx  |-> [i \in 1..n |-> i - 1],
           val  |-> ("timestamp" :> [i \in 1..n |-> 5 * (i - 1)])
                    @@ (raw :> s)
                    @@ ("failure_indicator" :> [i \in 1..n |-> i % 2])]
          : s \in SeriesOver(n, {0, 2}) }

\* A status table of n rows with no timestamp and no continuous column: two
\* boolean columns and the target, where any cell may be missing and a cell
\* that is present holds its row number.
StatusTables(n) ==
    LET cs == <<"pump_status", "valve_open", "failure_indicator">>
    IN  { [cols |-> cs,
           idx  |-> [i \in 1..n |-> i - 1],
           val  |-> [c \in Range(cs) |->
                        [i \in 1..n |-> IF <<c, i>> \in missing THEN NaN ELSE i]]]
          : missing \in {m \in SUBSET (Range(cs) \X (1..n)) :
                              Cardinality(m) <= MaxMissing} }

\* The row counts of the status tables.
StatusRowCounts == {2, 3}

\* A sensor table of 2 rows that also holds a column named hour (the hour
\* of the shift in which the row was written, 7), a name that the
\* time-based stage gives to a column it derives.
ShiftTables(cfg) ==
    { SetColumn(t, "hour", <<7, 7>>) : t \in SensorTables(cfg, 2) }

\* A table of 3 rows that holds every column the schema declares, under
\* its raw name: the timestamp, the continuous columns (the first with any
\* cell missing, the others complete), the boolean columns, the target.
FullTables(cfg) ==
    LET cc == cfg.schema.continuous_columns
        bc == cfg.schema.boolean_columns
        cs == <<cfg.schema.timestamp_column>> \o cc \o bc
              \o <<cfg.schema.target_column>>
    IN  { [cols |-> cs,
           idx  |-> <<0, 1, 2>>,
           val  |-> [c \in Range(cs) |->
                        IF c = cfg.schema.timestamp_column THEN <<0, 5, 10>>
                        ELSE IF c = cc[1] THEN s
                        ELSE IF c \in Range(cc) THEN <<1, 2, 3>>
                        ELSE <<1, 0, 1>>]]
          : s \in SeriesOver(3, {2}) }

\* The row counts of the vibration tables: fewer rows than the window of
\* the vibration trend (10), and more.
VibrationRowCounts == {3, 11}

\* A table sampled every 5 minutes with a vibration column that rises by 2
\* per row, the timestamp and the target.
VibrationTables ==
    { [cols |-> <<"timestamp", "vibration", "failure_indicator">>,
       idx  |-> [i \in 1..n |-> i - 1],
       val  |-> ("timestamp" :> [i \in 1..n |-> 5 * (i - 1)])
                @@ ("vibration" :> [i \in 1..n |-> 2 * i])
                @@ ("failure_indicator" :> [i \in 1..n |-> i % 2])]
      : n \in VibrationRowCounts }

InputTables(cfg) ==
    UNION { SensorTables(cfg, n) : n \in 1..MaxRows }
        \cup UNION { StatusTables(n) : n \in StatusRowCounts }
        \cup ShiftTables(cfg)
        \cup FullTables(cfg)
        \cup VibrationTables

\* The values of max_features that callers pass.
MaxFeatureChoices == {0, 2, 100}

\* The scores a statistical test may give n candidates: every vector over
\* 0..2 for a short list; for a long list the constant vector, the two
\* ramps, and the vectors that single out one candidate as best or as worst.
ScoreVectors(n) ==
    IF n <= 3 THEN [1..n -> 0..2]
    ELSE {[i \in 1..n |-> 0], [i \in 1..n |-> i], [i \in 1..n |-> n - i]}
         \cup {[i \in 1..n |-> IF i = j THEN 1 ELSE 0] : j \in 1..n}
         \cup {[i \in 1..n |-> IF i = j THEN 0 ELSE 1] : j \in 1..n}

----------------------------------------------------------------------------
(* FeatureEngineer.engineer_features, one action per stage. *)

\* entry names the method called: "engineer_features" or "select_features".
NoArgs == [entry |-> "none", df |-> NoTable, include_selection |-> FALSE,
           max_features |-> 0]

NoOut == [df |-> NoTable, feature_columns |-> <<>>]

\* History of the call: the table before and after cleaning, the candidate
\* list, and the k and the scores of the Selector (k = -1: not invoked).
NoSnap == [pre_clean |-> NoTable, cleaned |-> NoTable, candidates |-> <<>>,
           selector_k |-> -1, scores |-> <<>>]

\* No call was made before this one.  Otherwise: how the earlier call ended
\* (pc, out, err), its arguments and its history.
NoEarlier == [pc |-> "none", args |-> NoArgs, out |-> NoOut, err |-> "none",
              snap |-> NoSnap]

Init ==
    /\ pc = "idle"
    /\ config \in Configs
    /\ args = NoArgs
    /\ df = NoTable
    /\ stages = <<>>
    /\ snap = NoSnap
    /\ out = NoOut
    /\ err = "none"
    /\ feature_selector = NoSelector
    /\ earlier = NoEarlier

\* A caller invokes engineer_features(df, include_selection, max_features).
Call ==
    /\ pc = "idle"
    /\ \E t \in InputTables(config), sel \in BOOLEAN, mf \in MaxFeatureChoices :
          /\ args' = [entry |-> "engineer_features", df |-> t,
                       include_selection |-> sel, max_features |-> mf]
          /\ df' = t
    /\ pc' = "rename"
    /\ UNCHANGED <<config, stages, snap, out, err, feature_selector, earlier>>

\* A generator stage: runs at position at, applies gen to df, moves to next.
Stage(at, next, result) ==
    /\ pc = at
    /\ df' = result
    /\ stages' = Append(stages, at)
    /\ pc' = next
    /\ UNCHANGED <<config, args, snap, out, err, feature_selector, earlier>>

\* df = df.rename(columns=self.schema.column_mapping)
ApplyColumnMapping ==
    Stage("rename", "time", RenameColumns(df, config.schema.column_mapping))

\* A stage raises e: engineer_features has no handler, so the call ends there.
Raise(at, e) ==
    /\ pc = at
    /\ pc' = "error"
    /\ err' = e
    /\ UNCHANGED <<config, args, df, stages, snap, out, feature_selector, earlier>>

\* Mutant of TimeBased: the call of the lag stage is left out.
TimeBasedSkipsLag == Stage("time", "rolling", create_time_based_features(config, df))

\* Mutant of TimeBased: the error of to_datetime is caught and the stage
\* passes the table on as it is.
TimeBasedSwallows ==
    Stage("time", "lag", IF TimeFails(config, df) THEN df
                         ELSE create_time_based_features(config, df))

TimeBased ==
    IF TimeFails(config, df) THEN Raise("time", "ValueError")
    ELSE Stage("time", "lag", create_time_based_features(config, df))

Lag == Stage("lag", "rolling", create_lag_features(config, df))

RollingFeatures == Stage("rolling", "rate_of_change", create_rolling_features(config, df))

RateOfChange ==
    Stage("rate_of_change", "interaction", create_rate_of_change_features(config, df))

Interaction ==
    Stage("interaction", "statistical", create_interaction_features(config, df))

Statistical == Stage("statistical", "anomaly", create_statistical_features(config, df))

Anomaly == Stage("anomaly", "domain", create_anomaly_features(config, df))

DomainSpecific == Stage("domain", "clean", create_domain_specific_features(config, df))

\* The cleaning steps.
Clean ==
    /\ pc = "clean"
    /\ df' = Cleaner(df)
    /\ stages' = Append(stages, "clean")
    /\ snap' = [snap EXCEPT !.pre_clean = df, !.cleaned = df']
    /\ pc' = "select"
    /\ UNCHANGED <<config, args, out, err, feature_selector, earlier>>

\* [col for col in df.columns if col not in exclude_cols]
FeatureColumns(cfg, t) ==
    SelectSeq(t.cols, LAMBDA c :
        c \notin {cfg.schema.target_column, cfg.schema.timestamp_column})

\* Mutant of SelectionWanted: selection also runs at exactly max_features.
SelectionWantedAtLeast(a, feature_columns) ==
    a.include_selection /\ Len(feature_columns) >= a.max_features

\* if include_selection and len(feature_columns) > max_features
SelectionWanted(a, feature_columns) ==
    a.include_selection /\ Len(feature_columns) > a.max_features

\* Mutant of SelectionK: select_features is left to its default k = 50.
SelectionKDefault(a) == 50

\* k=max_features in the call of select_features
SelectionK(a) == a.max_features

\* The scores f_classif may give the candidates of table t.  f_classif is a
\* function of the data: a table and candidate list that the earlier call
\* scored get the same scores again.
f_classif(known, t, feature_columns) ==
    IF /\ known.snap.selector_k >= 0
       /\ known.snap.cleaned = t
       /\ known.snap.candidates = feature_columns
    THEN {known.snap.scores}
    ELSE ScoreVectors(Len(feature_columns))

\* The candidate list, the optional selection, and the return.
Finish ==
    /\ pc = "select"
    /\ LET feature_columns == FeatureColumns(config, df)
       IN  IF SelectionWanted(args, feature_columns)
           THEN \E scores \in f_classif(earlier, df, feature_columns) :
                  LET r == select_features(config, feature_selector, df,
                               config.schema.target_column, feature_columns,
                               SelectionK(args), "f_classif", scores)
                  IN  /\ snap' = [snap EXCEPT !.candidates = feature_columns,
                                              !.selector_k = SelectionK(args),
                                              !.scores = scores]
                      /\ stages' = Append(stages, "select")
                      /\ feature_selector' = r.selector
                      /\ err' = r.err
                      /\ IF r.err = "none"
                         THEN /\ df' = r.df
                              /\ out' = [df |-> r.df, feature_columns |-> r.selected]
                              /\ pc' = "done"
                         ELSE /\ UNCHANGED <<df, out>>
                              /\ pc' = "error"
           ELSE /\ snap' = [snap EXCEPT !.candidates = feature_columns]
                /\ out' = [df |-> df, feature_columns |-> feature_columns]
                /\ pc' = "done"
                /\ UNCHANGED <<df, stages, err, feature_selector, earlier>>
    /\ UNCHANGED <<config, args, earlier>>

\* The tables handed to select_features directly: n rows every 5 minutes
\* with two features, the target and the timestamp, at most one cell of the
\* features and the target missing.
SelectTables ==
    LET cs == <<"pump_status", "valve_open", "failure_indicator", "timestamp">>
    IN  UNION { { [cols |-> cs,
                   idx  |-> [i \in 1..n |-> i - 1],
                   val  |-> [c \in Range(cs) |->
                                [i \in 1..n |->
                                    IF c = "timestamp" THEN 5 * (i - 1)
                                    ELSE IF <<c, i>> \in missing THEN NaN
                                    ELSE i % 2]]]
                  : missing \in {{}} \cup
                        {{<<c, i>>} : c \in {"pump_status", "valve_open",
                                             "failure_indicator"}, i \in 1..n} }
              : n \in 1..MaxRows }

\* The candidate lists handed to select_features directly.
CandidateLists ==
    {<<>>, <<"pump_status">>, <<"valve_open">>, <<"pump_status", "valve_open">>,
     <<"valve_open", "pump_status">>}

\* The method names handed to select_features directly: the two tests it
\* knows and one it does not.
Methods == {"f_classif", "mutual_info", "chi2"}

\* What the score function of a method may return for n candidates; no
\* score function runs for a method that select_features does not know.
MethodScores(method, n) ==
    IF method \in {"f_classif", "mutual_info"} THEN ScoreVectors(n) ELSE {<<>>}

\* A caller invokes select_features(df, target_col, feature_columns, k, method).
SelectCall ==
    /\ pc = "idle"
    /\ \E t \in SelectTables, feature_columns \in CandidateLists, k \in 0..MaxK,
          method \in Methods :
         \E scores \in MethodScores(method, Len(feature_columns)) :
            LET r == select_features(config, feature_selector, t,
                         config.schema.target_column, feature_columns, k,
                         method, scores)
            IN  /\ args' = [entry |-> "select_features", df |-> t,
                            include_selection |-> TRUE, max_features |-> k,
                            method |-> method]
                /\ snap' = [snap EXCEPT !.candidates = feature_columns,
                                        !.selector_k = k, !.scores = scores]
                /\ stages' = <<"select">>
                /\ feature_selector' = r.selector
                /\ err' = r.err
                /\ df' = t
                /\ out' = IF r.err = "none"
                          THEN [df |-> r.df, feature_columns |-> r.selected]
                          ELSE NoOut
                /\ pc' = IF r.err = "none" THEN "done" ELSE "error"
    /\ UNCHANGED <<config, earlier>>

Next ==
    \/ Call
    \/ SelectCall
    \/ ApplyColumnMapping
    \/ TimeBased
    \/ Lag
    \/ RollingFeatures
    \/ RateOfChange
    \/ Interaction
    \/ Statistical
    \/ Anomaly
    \/ DomainSpecific
    \/ Clean
    \/ Finish

Spec == Init /\ [][Next]_vars

----------------------------------------------------------------------------
(* A session on one FeatureEngineer: engineer_features is called, and       *)
(* called again with the same arguments; or one generator is called on its  *)
(* own.                                                                      *)

\* A sensor table of 2 rows whose second timestamp is not a date.
UnparsableTables(cfg) ==
    { SetColumn(t, cfg.schema.timestamp_column, <<0, Unparsable>>)
        : t \in SensorTables(cfg, 2) }

\* The tables of a session.
SessionTables(cfg) ==
    FullTables(cfg) \cup StatusTables(2) \cup UnparsableTables(cfg)

\* A caller invokes engineer_features(df, include_selection, max_features).
SessionCall ==
    /\ pc = "idle"
    /\ \E t \in SessionTables(config), sel \in BOOLEAN, mf \in MaxFeatureChoices :
          /\ args' = [entry |-> "engineer_features", df |-> t,
                       include_selection |-> sel, max_features |-> mf]
          /\ df' = t
    /\ pc' = "rename"
    /\ UNCHANGED <<config, stages, snap, out, err, feature_selector, earlier>>

\* Mutant of CallAgain: the stages of the first call have worked on the
\* caller's table itself, and the second call is handed the table they left.
CallAgainOnWorkingTable ==
    /\ pc \in {"done", "error"}
    /\ args.entry = "engineer_features"
    /\ earlier = NoEarlier
    /\ earlier' = [pc |-> pc, args |-> args, out |-> out, err |-> err, snap |-> snap]
    /\ df' = df
    /\ stages' = <<>>
    /\ snap' = NoSnap
    /\ out' = NoOut
    /\ err' = "none"
    /\ pc' = "rename"
    /\ UNCHANGED <<config, args, feature_selector>>

\* The call has ended, and the caller invokes engineer_features again on the
\* same FeatureEngineer with the same table and arguments.  The caller's
\* table is as it was: engineer_features works on the copy that rename made.
CallAgain ==
    /\ pc \in {"done", "error"}
    /\ args.entry = "engineer_features"
    /\ earlier = NoEarlier
    /\ earlier' = [pc |-> pc, args |-> args, out |-> out, err |-> err, snap |-> snap]
    /\ df' = args.df
    /\ stages' = <<>>
    /\ snap' = NoSnap
    /\ out' = NoOut
    /\ err' = "none"
    /\ pc' = "rename"
    /\ UNCHANGED <<config, args, feature_selector>>

\* The eight generators, in the order in which engineer_features calls them.
GeneratorNames ==
    <<"create_time_based_features", "create_lag_features",
      "create_rolling_features", "create_rate_of_change_features",
      "create_interaction_features", "create_statistical_features",
      "create_anomaly_features", "create_domain_specific_features">>

Generate(g, cfg, t) ==
    CASE g = "create_time_based_features"      -> create_time_based_features(cfg, t)
      [] g = "create_lag_features"             -> create_lag_features(cfg, t)
      [] g = "create_rolling_features"         -> create_rolling_features(cfg, t)
      [] g = "create_rate_of_change_features"  -> create_rate_of_change_features(cfg, t)
      [] g = "create_interaction_features"     -> create_interaction_features(cfg, t)
      [] g = "create_statistical_features"     -> create_statistical_features(cfg, t)
      [] g = "create_anomaly_features"         -> create_anomaly_features(cfg, t)
      [] g = "create_domain_specific_features" -> create_domain_specific_features(cfg, t)

\* A caller invokes one generator on a table of its own.  The generator
\* assigns its columns to the table object it was given (df[name] = ...) and
\* returns that object: args.df is the caller's table object as it is after
\* the call, args.given its value when the call was made.
GeneratorCall ==
    /\ pc = "idle"
    /\ \E t \in SessionTables(config), g \in Range(GeneratorNames) :
          IF g = "create_time_based_features" /\ TimeFails(config, t)
          THEN /\ args' = [entry |-> g, df |-> t, given |-> t]
               /\ df' = t
               /\ out' = NoOut
               /\ err' = "ValueError"
               /\ pc' = "error"
          ELSE LET r == Generate(g, config, t)
               IN  /\ args' = [entry |-> g, df |-> r, given |-> t]
                   /\ df' = r
                   /\ out' = [df |-> r, feature_columns |-> <<>>]
                   /\ err' = "none"
                   /\ pc' = "done"
    /\ UNCHANGED <<config, stages, snap, feature_selector, earlier>>

SessionNext ==
    \/ SessionCall
    \/ CallAgain
    \/ GeneratorCall
    \/ ApplyColumnMapping
    \/ TimeBased
    \/ Lag
    \/ RollingFeatures
    \/ RateOfChange
    \/ Interaction
    \/ Statistical
    \/ Anomaly
    \/ DomainSpecific
    \/ Clean
    \/ Finish

SessionSpec == Init /\ [][SessionNext]_vars

----------------------------------------------------------------------------
(* The configuration layer: ConfigManager.create_default_config builds an   *)
(* OrganizationConfig, whose schema is then queried and handed to a         *)
(* FeatureEngineer.                                                         *)

\* dict.get(key, default)
Get(d, key, default) == IF key \in DOMAIN d THEN d[key] ELSE default

\* OrganizationConfig._init_schema_config, schema_config being
\* config_dict.get('schemaConfig', {}).
init_schema_config(schema_config) ==
    [continuous_columns |->
         Get(schema_config, "continuousColumns",
             <<"temperature", "pressure", "flow_rate", "vibration",
               "current", "voltage", "rpm", "power_consumption">>),
     boolean_columns |->
         Get(schema_config, "booleanColumns",
             <<"pump_status", "valve_open", "alarm_active", "maintenance_mode">>),
     column_mapping   |-> Get(schema_config, "columnMapping", NoMapping),
     lag_seconds      |-> Get(schema_config, "lagSeconds", <<60, 120, 300>>),
     rolling_windows  |-> Get(schema_config, "rollingWindows", <<5, 10, 20>>),
     target_column    |-> Get(schema_config, "targetColumn", "failure_indicator"),
     timestamp_column |-> Get(schema_config, "timestampColumn", "timestamp")]

\* OrganizationConfig.validate: the messages about the schema (the other
\* messages are about the database, the dates and the training splits).
validate(cfg) ==
    (IF cfg.schema.continuous_columns = <<>> /\ cfg.schema.boolean_columns = <<>>
     THEN <<"At least one continuous or boolean column must be specified">>
     ELSE <<>>)
    \o (IF cfg.schema.target_column = ""
        THEN <<"Target column is required">>
        ELSE <<>>)

\* The schemaConfig dictionaries of the overrides: every key may be left
\* out; lists may be empty or repeat a value, the mapping may send two raw
\* names to one name or a raw name to another key, the target may be empty
\* or the name of a sensor column.
SchemaOverrides ==
    LET absent == NoMapping
        opt(key, values) == {absent} \cup {key :> v : v \in values}
    IN  { cc @@ bc @@ cm @@ ls @@ rw @@ tc :
            cc \in opt("continuousColumns",
                       {<<>>, <<"temp_raw">>, <<"temp_raw", "rpm">>}),
            bc \in opt("booleanColumns", {<<>>, <<"pump_status">>}),
            cm \in opt("columnMapping",
                       {"temp_raw" :> "temperature",
                        ("temp_raw" :> "temperature") @@ ("rpm" :> "temperature"),
                        ("temp_raw" :> "temperature") @@ ("temperature" :> "temp_c")}),
            ls \in opt("lagSeconds", {<<>>, <<300, 60>>, <<60, 60>>}),
            rw \in opt("rollingWindows", {<<>>, <<5, 2>>}),
            tc \in opt("targetColumn", {"", "temp_raw"}) }

\* No configuration has been created yet.
NoConfig == [schema |-> init_schema_config(NoMapping), sampling_interval_minutes |-> 0]

\* The names callers ask get_mapped_column about.
ColumnNames == {"temp_raw", "temperature", "temp_c", "rpm", "pump_status"}

SchemaInit ==
    /\ pc = "new"
    /\ config = NoConfig
    /\ args = NoArgs
    /\ df = NoTable
    /\ stages = <<>>
    /\ snap = NoSnap
    /\ out = NoOut
    /\ err = "none"
    /\ feature_selector = NoSelector
    /\ earlier = NoEarlier

\* ConfigManager.create_default_config(organization_id, overrides): builds
\* the configuration, logs what validate reports as a warning, returns the
\* configuration.  stages records the messages logged.
create_default_config ==
    /\ pc = "new"
    /\ \E schema_config \in SchemaOverrides :
          /\ config' = [schema |-> init_schema_config(schema_config),
                         sampling_interval_minutes |-> 5]
          /\ args' = [entry |-> "create_default_config", overrides |-> schema_config]
    /\ stages' = validate(config')
    /\ pc' = "idle"
    /\ UNCHANGED <<df, snap, out, err, feature_selector, earlier>>

\* FeatureEngineer.__init__(config)
NewFeatureEngineer ==
    /\ pc = "idle"
    /\ args' = [entry |-> "FeatureEngineer"]
    /\ feature_selector' = NoSelector
    /\ pc' = "engineer"
    /\ UNCHANGED <<config, df, stages, snap, out, err, earlier>>

\* A caller invokes schema.get_all_feature_columns().
GetAllFeatureColumns ==
    /\ pc = "idle"
    /\ args' = [entry |-> "get_all_feature_columns"]
    /\ out' = [df |-> NoTable,
               feature_columns |-> get_all_feature_columns(config.schema)]
    /\ pc' = "done"
    /\ UNCHANGED <<config, df, stages, snap, err, feature_selector, earlier>>

\* A caller invokes schema.get_mapped_column(original_name).
GetMappedColumn ==
    /\ pc = "idle"
    /\ \E original_name \in ColumnNames :
          /\ args' = [entry |-> "get_mapped_column", original_name |-> original_name]
          /\ out' = [name |-> get_mapped_column(config.schema, original_name)]
    /\ pc' = "mapped"
    /\ UNCHANGED <<config, df, stages, snap, err, feature_selector, earlier>>

\* The caller invokes schema.get_mapped_column on the name it got back.
GetMappedColumnAgain ==
    /\ pc = "mapped"
    /\ args' = [entry |-> "get_mapped_column", original_name |-> out.name]
    /\ out' = [name |-> get_mapped_column(config.schema, out.name)]
    /\ pc' = "remapped"
    /\ UNCHANGED <<config, df, stages, snap, err, feature_selector, earlier>>

SchemaNext ==
    \/ create_default_config
    \/ NewFeatureEngineer
    \/ GetAllFeatureColumns
    \/ GetMappedColumn
    \/ GetMappedColumnAgain

SchemaSpec == SchemaInit /\ [][SchemaNext]_vars

----------------------------------------------------------------------------
(* Properties. *)

IsPrefix(a, b) == Len(a) <= Len(b) /\ \A i \in 1..Len(a) : a[i] = b[i]

NoRepeats(s) == \A a, b \in 1..Len(s) : s[a] = s[b] => a = b

\* The position of name x in the list s.
PositionIn(s, x) == CHOOSE i \in 1..Len(s) : s[i] = x

\* engineer_features has returned.
EngineerReturned == args.entry = "engineer_features" /\ pc = "done"

\* The Selector was invoked and has returned.
SelectorReturned == pc = "done" /\ snap.selector_k >= 0

\* engineer_features has run its cleaning steps.
Cleaned == args.entry = "engineer_features" /\ pc \in {"select", "done", "error"}

\* C1: whenever engineer_features returns, the returned feature name list
\* is the list of the columns of the returned table without the target
\* column and the timestamp column.
C1_NamesMatchTable ==
    EngineerReturned =>
        out.feature_columns =
            SelectSeq(out.df.cols, LAMBDA c :
                c \notin {config.schema.target_column, config.schema.timestamp_column})

\* engineer_features returned after a selection that kept some feature.
C1_Witness ==
    EngineerReturned /\ snap.selector_k >= 0 /\ Len(out.feature_columns) > 0

\* C2: engineer_features invokes the Selector exactly when include_selection
\* is true and there are more candidates after cleaning than max_features,
\* and then with k = max_features; otherwise it returns all candidates and
\* the cleaned table with every column.
C2_SelectionIff ==
    (args.entry = "engineer_features" /\ pc \in {"done", "error"}) =>
        LET candidates ==
                SelectSeq(snap.cleaned.cols, LAMBDA c :
                    c \notin {config.schema.target_column,
                              config.schema.timestamp_column})
            invoked == snap.selector_k # -1
        IN  /\ invoked <=> (args.include_selection
                              /\ Len(candidates) > args.max_features)
            /\ invoked => snap.selector_k = args.max_features
            /\ ~invoked => /\ pc = "done"
                           /\ out.feature_columns = candidates
                           /\ out.df = snap.cleaned

\* engineer_features returned without selection although selection was
\* asked for, the candidates being exactly max_features many.
C2_Witness ==
    /\ EngineerReturned
    /\ args.include_selection
    /\ snap.selector_k = -1
    /\ Len(out.feature_columns) = args.max_features

\* C3: the list the Selector returns has exactly min(k, number of
\* candidates) names, repeats none, is a subset of the candidates and holds
\* neither the target nor the timestamp column.
C3_SelectedCount ==
    SelectorReturned =>
        LET n == Len(snap.candidates)
            k == snap.selector_k
        IN  /\ Len(out.feature_columns) = (IF k <= n THEN k ELSE n)
            /\ NoRepeats(out.feature_columns)
            /\ Range(out.feature_columns) \subseteq Range(snap.candidates)
            /\ config.schema.target_column \notin Range(out.feature_columns)
            /\ config.schema.timestamp_column \notin Range(out.feature_columns)

\* The Selector returned every one of two candidates for a k above two.
C3_Witness ==
    /\ SelectorReturned
    /\ Len(snap.candidates) = 2
    /\ snap.selector_k > 2
    /\ Len(out.feature_columns) = 2

\* C4 as stated: of any two returned names, the one with the strictly
\* higher score comes first in the returned list.
C4_RelevanceOrder ==
    SelectorReturned =>
        \A a, b \in 1..Len(out.feature_columns) :
            snap.scores[PositionIn(snap.candidates, out.feature_columns[a])]
                > snap.scores[PositionIn(snap.candidates, out.feature_columns[b])]
            => a < b

\* C4 as amended: the returned names are listed in the order of the
\* candidate list, and no candidate left out has a higher score than a
\* returned one.
C4_TopKInCandidateOrder ==
    SelectorReturned =>
        /\ \A a, b \in 1..Len(out.feature_columns) :
              a < b => PositionIn(snap.candidates, out.feature_columns[a])
                          < PositionIn(snap.candidates, out.feature_columns[b])
        /\ \A i, j \in 1..Len(snap.candidates) :
              (snap.candidates[i] \in Range(out.feature_columns)
                 /\ snap.candidates[j] \notin Range(out.feature_columns))
              => snap.scores[i] >= snap.scores[j]

\* The Selector returned two names, the second with the higher score, and
\* left out a candidate.
C4_Witness ==
    /\ SelectorReturned
    /\ Len(out.feature_columns) = 2
    /\ Len(snap.candidates) > 2
    /\ snap.scores[PositionIn(snap.candidates, out.feature_columns[1])]
          < snap.scores[PositionIn(snap.candidates, out.feature_columns[2])]

\* C5: the column renaming, the eight generators, the Cleaner and the
\* Selector run in this order, each at most once, and a call that ends has
\* run the eight generators and the Cleaner.
C5_StageOrder ==
    args.entry = "engineer_features" =>
        LET order == <<"rename", "time", "lag", "rolling", "rate_of_change",
                       "interaction", "statistical", "anomaly", "domain",
                       "clean", "select">>
        IN  /\ IsPrefix(stages, order)
            /\ pc \in {"done", "error"} => Len(stages) >= 10
            /\ pc = "select" => Len(stages) = 10

\* A call ended after the eight generators, the Cleaner and the Selector.
C5_Witness == EngineerReturned /\ Len(stages) = 11 /\ stages[11] = "select"

\* C6 as stated: a row with c non-missing values out of n columns survives
\* the cleaning only if c / n >= 0.7.
C6_SeventyPercent ==
    Cleaned =>
        \A i \in 1..NRows(snap.pre_clean) :
            snap.pre_clean.idx[i] \in Range(snap.cleaned.idx)
            => 10 * NonNullCount(snap.pre_clean, i) >= 7 * Len(snap.pre_clean.cols)

\* C7: the four cleaning steps applied to the Cleaner's output give that
\* output back.
C7_CleanerIdempotent ==
    Cleaned => DropnaAny(Bfill(Ffill(
                   DropnaThresh(snap.cleaned, (7 * Len(snap.cleaned.cols)) \div 10))))
               = snap.cleaned

\* The Cleaner dropped a row, filled a cell and kept rows with different
\* values.
C7_Witness ==
    /\ Cleaned
    /\ NRows(snap.cleaned) >= 2
    /\ NRows(snap.cleaned) < NRows(snap.pre_clean)
    /\ \E c \in Range(snap.cleaned.cols) :
          snap.cleaned.val[c][1] # snap.cleaned.val[c][2]
    /\ \E c \in Range(snap.cleaned.cols), i \in 1..NRows(snap.pre_clean) :
          /\ snap.pre_clean.idx[i] \in Range(snap.cleaned.idx)
          /\ snap.pre_clean.val[c][i] = NaN

\* The rows of the table that pass the test of cleaning step 1.
PassedStepOne(t) ==
    {i \in 1..NRows(t) : NonNullCount(t, i) >= (7 * Len(t.cols)) \div 10}

\* C8: the rows of the Cleaner's output are rows that passed step 1, in
\* their original order, and every cell of the output holds a value that
\* some row that passed step 1 held in the same column.
C8_NoResurrection ==
    Cleaned =>
        LET t      == snap.pre_clean
            passed == PassedStepOne(t)
        IN  /\ \A j \in 1..NRows(snap.cleaned) :
                  \E i \in passed : t.idx[i] = snap.cleaned.idx[j]
            /\ \A a, b \in 1..NRows(snap.cleaned) :
                  a < b => snap.cleaned.idx[a] < snap.cleaned.idx[b]
            /\ snap.cleaned.cols = t.cols
            /\ \A c \in Range(t.cols) : \A j \in 1..NRows(snap.cleaned) :
                  \E i \in passed : /\ t.val[c][i] # NaN
                                    /\ t.val[c][i] = snap.cleaned.val[c][j]

\* A row that held a value failed step 1, and a row of the output had a
\* missing cell in that column filled.
C8_Witness ==
    /\ Cleaned
    /\ \E c \in Range(snap.pre_clean.cols) :
          /\ \E i \in 1..NRows(snap.pre_clean) :
                /\ i \notin PassedStepOne(snap.pre_clean)
                /\ snap.pre_clean.val[c][i] # NaN
          /\ \E i \in 1..NRows(snap.pre_clean) :
                /\ snap.pre_clean.idx[i] \in Range(snap.cleaned.idx)
                /\ snap.pre_clean.val[c][i] = NaN

\* C9 as stated: when cleaning removes every row, engineer_features fails
\* with an InsufficientDataError and returns no table.
C9_EmptyIsError ==
    (args.entry = "engineer_features" /\ pc \in {"done", "error"}
        /\ NRows(snap.cleaned) = 0)
    => (pc = "error" /\ err = "InsufficientDataError")

\* C10: after the lag stage, for every continuous column in the table and
\* every configured lag L, the column {col}_lag_{L}s holds at row i the
\* base value of row i - p for i >= p and is missing before, where
\* p = max(1, L // (sampling_interval_minutes * 60)) >= 1.
C10_LagShift ==
    (args.entry = "engineer_features" /\ pc = "rolling") =>
        \A j \in 1..Len(config.schema.continuous_columns) :
            LET raw == config.schema.continuous_columns[j]
                col == IF raw \in DOMAIN config.schema.column_mapping
                       THEN config.schema.column_mapping[raw] ELSE raw
            IN  HasColumn(df, col) =>
                \A l \in 1..Len(config.schema.lag_seconds) :
                    LET L    == config.schema.lag_seconds[l]
                        q    == L \div (config.sampling_interval_minutes * 60)
                        p    == IF q > 1 THEN q ELSE 1
                        name == col \o "_lag_" \o ToString(L) \o "s"
                    IN  /\ HasColumn(df, name)
                        /\ \A i \in 1..NRows(df) :
                              df.val[name][i] =
                                  IF i > p THEN df.val[col][i - p] ELSE NaN

\* The lag stage made a column of period 2 that holds a base value.
C10_Witness ==
    /\ args.entry = "engineer_features" /\ pc = "rolling"
    /\ \E l \in 1..Len(config.schema.lag_seconds) :
          LET L    == config.schema.lag_seconds[l]
              name == "temperature_lag_" \o ToString(L) \o "s"
          IN  /\ L \div (config.sampling_interval_minutes * 60) = 2
              /\ HasColumn(df, name)
              /\ NRows(df) >= 3
              /\ df.val[name][3] # NaN

\* Scenario A has returned: one continuous column temperature sampled every
\* 5 minutes, lag [300], rolling window [5], an input table of at least
\* three rows (fewer rows leave the second difference missing in every row)
\* with every temperature present and not all of them zero (which leaves
\* the percentage change missing in every row), no selection.
ScenarioAReturned ==
    /\ EngineerReturned
    /\ snap.selector_k = -1
    /\ config.schema.continuous_columns = <<"temperature">>
    /\ config.schema.lag_seconds = <<300>>
    /\ config.schema.rolling_windows = <<5>>
    /\ config.sampling_interval_minutes = 5
    /\ args.df.cols = <<"timestamp", "temperature", "failure_indicator">>
    /\ NRows(args.df) >= 3
    /\ \A i \in 1..NRows(args.df) : args.df.val["temperature"][i] # NaN
    /\ \E i \in 1..NRows(args.df) : args.df.val["temperature"][i] # 0

\* The columns that scenario A names.
ScenarioAColumns ==
    {"temperature", "temperature_lag_300s", "temperature_rolling_mean_5",
     "temperature_rolling_std_5", "temperature_rolling_min_5",
     "temperature_rolling_max_5"}

\* C11 as stated: in the table returned for scenario A the named columns
\* are present, temperature_lag_300s is missing in the first row and equal
\* to temperature[i-1] in every later row.
C11_ScenarioA ==
    ScenarioAReturned =>
        /\ ScenarioAColumns \subseteq Range(out.df.cols)
        /\ out.df.val["temperature_lag_300s"][1] = NaN
        /\ \A i \in 2..NRows(out.df) :
              out.df.val["temperature_lag_300s"][i] = out.df.val["temperature"][i-1]

\* C11 as amended: in the table returned for scenario A the named columns
\* are present and every input row is kept; temperature_lag_300s equals
\* temperature[i-1] in every row after the first, and in the first row,
\* where the lag stage left it missing, it holds the value the Cleaner
\* filled backward from the second row, which is temperature[1].
C11_ScenarioABackfilled ==
    ScenarioAReturned =>
        /\ ScenarioAColumns \subseteq Range(out.df.cols)
        /\ out.df.idx = args.df.idx
        /\ out.df.val["temperature"] = args.df.val["temperature"]
        /\ snap.pre_clean.val["temperature_lag_300s"][1] = NaN
        /\ out.df.val["temperature_lag_300s"][1] = out.df.val["temperature"][1]
        /\ \A i \in 2..NRows(out.df) :
              out.df.val["temperature_lag_300s"][i] = out.df.val["temperature"][i-1]

\* Scenario A returned three rows whose first two temperatures differ.
C11_Witness ==
    /\ ScenarioAReturned
    /\ NRows(out.df) = 3
    /\ out.df.val["temperature"][1] # out.df.val["temperature"][2]

\* The rolling stage has just run.
RollingDone == args.entry = "engineer_features" /\ pc = "rate_of_change"

\* C12: after the rolling stage, for every continuous column in the table,
\* every configured window w and every row where rolling_max and
\* rolling_min are both defined, rolling_max >= rolling_min, and the base
\* value of the row, when present, lies between them.
C12_RollingMaxMin ==
    RollingDone =>
        \A j \in 1..Len(config.schema.continuous_columns) :
            LET raw == config.schema.continuous_columns[j]
                col == IF raw \in DOMAIN config.schema.column_mapping
                       THEN config.schema.column_mapping[raw] ELSE raw
            IN  HasColumn(df, col) =>
                \A l \in 1..Len(config.schema.rolling_windows) :
                    LET w  == ToString(config.schema.rolling_windows[l])
                        mn == df.val[col \o "_rolling_min_" \o w]
                        mx == df.val[col \o "_rolling_max_" \o w]
                    IN  \A i \in 1..NRows(df) :
                          (mn[i] # NaN /\ mx[i] # NaN) =>
                              /\ mx[i] >= mn[i]
                              /\ df.val[col][i] # NaN =>
                                    (mn[i] <= df.val[col][i] /\ df.val[col][i] <= mx[i])

\* The rolling stage made, for a window of 2, a row whose maximum is above
\* its minimum and above its base value, and a later row whose window has
\* lost the first row.
C12_Witness ==
    /\ RollingDone
    /\ HasColumn(df, "temperature_rolling_max_2")
    /\ NRows(df) >= 3
    /\ df.val["temperature_rolling_max_2"][2] > df.val["temperature_rolling_min_2"][2]
    /\ df.val["temperature_rolling_min_2"][2] # NaN
    /\ df.val["temperature_rolling_max_2"][2] > df.val["temperature"][2]
    /\ df.val["temperature"][2] # NaN
    /\ df.val["temperature_rolling_max_2"][3] < df.val["temperature"][1]
    /\ df.val["temperature_rolling_max_2"][3] # NaN

\* The rate-of-change stage has just run.
RateOfChangeDone == args.entry = "engineer_features" /\ pc = "interaction"

\* C13 as stated: after the rate-of-change stage the first difference, the
\* second difference and the percentage change of every continuous column
\* in the table are missing in the first row, and the percentage change is
\* missing in every row whose previous base value is zero or missing.
C13_PctChangeUndefined ==
    RateOfChangeDone =>
        \A j \in 1..Len(config.schema.continuous_columns) :
            LET raw == config.schema.continuous_columns[j]
                col == IF raw \in DOMAIN config.schema.column_mapping
                       THEN config.schema.column_mapping[raw] ELSE raw
            IN  (HasColumn(df, col) /\ NRows(df) >= 1) =>
                /\ df.val[col \o "_roc"][1] = NaN
                /\ df.val[col \o "_acceleration"][1] = NaN
                /\ df.val[col \o "_pct_change"][1] = NaN
                /\ \A i \in 2..NRows(df) :
                      df.val[col][i-1] \in {0, NaN}
                      => df.val[col \o "_pct_change"][i] = NaN

\* The positions of engineer_features at which a generator stage runs next.
GeneratorPositions ==
    {"time", "lag", "rolling", "rate_of_change", "interaction", "statistical",
     "anomaly", "domain"}

\* C14 as stated: every generator stage keeps the rows and their order,
\* keeps every column it was given at its place and with its values (the
\* timestamp column apart), and only appends columns.
C14_AppendOnly ==
    [][(args.entry = "engineer_features" /\ pc \in GeneratorPositions) =>
          /\ df'.idx = df.idx
          /\ IsPrefix(df.cols, df'.cols)
          /\ \A c \in Range(df.cols) \ {config.schema.timestamp_column} :
                df'.val[c] = df.val[c]]_vars

\* The mapped names of the declared continuous columns.
DeclaredContinuous ==
    {IF c \in DOMAIN config.schema.column_mapping
     THEN config.schema.column_mapping[c] ELSE c
       : c \in Range(config.schema.continuous_columns)}

\* The names that the generators derive from the column named a.
DerivedFrom(a) ==
    {a \o suffix : suffix \in {"_roc", "_acceleration", "_pct_change", "_z_score",
                               "_anomaly", "_distance_from_mean"}}
    \cup {a \o "_lag_" \o ToString(L) \o "s" : L \in Range(config.schema.lag_seconds)}
    \cup {a \o "_rolling_" \o stat \o "_" \o ToString(w) :
              stat \in {"mean", "std", "min", "max", "median"},
              w \in Range(config.schema.rolling_windows)}
    \cup UNION {{a \o "_" \o b \o kind, b \o "_" \o a \o kind} :
              b \in DeclaredContinuous \cup {"temperature", "pressure", "current",
                                             "voltage", "vibration", "rpm", "flow_rate"},
              kind \in {"_mult", "_ratio", "_diff"}}

\* The columns of the table that the generators are given: the columns of
\* the caller's table under their mapped names.
GeneratorInputColumns ==
    {IF c \in DOMAIN config.schema.column_mapping
     THEN config.schema.column_mapping[c] ELSE c : c \in Range(args.df.cols)}

\* C15: at every position of engineer_features after the renaming, a
\* declared continuous column whose mapped name is not a column of the
\* table given to the generators has no column derived from its name in
\* the table, no stage before the Selector has raised an error, and the
\* same holds of the table that is returned.
C15_AbsentColumnNoOp ==
    (args.entry = "engineer_features" /\ pc # "rename") =>
        /\ pc = "error" => "select" \in Range(stages)
        /\ \A a \in DeclaredContinuous \ GeneratorInputColumns :
              /\ (DerivedFrom(a) \cup {a}) \cap Range(df.cols) = {}
              /\ pc = "done" =>
                    (DerivedFrom(a) \cup {a}) \cap Range(out.df.cols) = {}

\* engineer_features returned a table with rows that holds the features of
\* temperature, for a schema that also declares rpm, which the table lacks.
C15_Witness ==
    /\ EngineerReturned
    /\ "rpm" \in DeclaredContinuous
    /\ ~HasColumn(out.df, "rpm")
    /\ HasColumn(out.df, "temperature_roc")
    /\ HasColumn(out.df, "temperature_lag_600s")
    /\ NRows(out.df) >= 1

\* Every generator stage has run on a table that holds every column the
\* schema declares.
GeneratedFromFullTable ==
    /\ args.entry = "engineer_features" /\ pc = "clean"
    /\ (Range(config.schema.continuous_columns)
          \cup Range(config.schema.boolean_columns)) \subseteq Range(args.df.cols)

\* C16 as stated: after all generators have run on a table that holds every
\* declared column, the names get_all_feature_columns lists are exactly the
\* columns of the table other than the target and the timestamp.
C16_EnumerationMatches ==
    GeneratedFromFullTable =>
        Range(get_all_feature_columns(config.schema))
            = Range(df.cols) \ {config.schema.target_column,
                                config.schema.timestamp_column}

\* get_all_feature_columns has returned.
EnumerationReturned == args.entry = "get_all_feature_columns" /\ pc = "done"

\* The name that column_mapping gives to a declared column.
Resolved(c) ==
    IF c \in DOMAIN config.schema.column_mapping
    THEN config.schema.column_mapping[c] ELSE c

\* The schema is valid: neither the target nor the timestamp column is
\* declared, under its raw or its mapped name, and lags and windows are
\* positive.
ValidSchema ==
    LET declared == Range(config.schema.continuous_columns)
                    \cup Range(config.schema.boolean_columns)
    IN  /\ {config.schema.target_column, config.schema.timestamp_column}
              \cap (declared \cup {Resolved(c) : c \in declared}) = {}
        /\ \A l \in Range(config.schema.lag_seconds) : l > 0
        /\ \A w \in Range(config.schema.rolling_windows) : w > 0

\* C17 as stated: for a valid schema the list get_all_feature_columns
\* returns holds no name twice.
C17_NoDuplicateNames ==
    (EnumerationReturned /\ ValidSchema) => NoRepeats(out.feature_columns)

\* C18: the list get_all_feature_columns returns has length
\* |continuous| * (1 + |lags| + 4 * |windows|) + |boolean|; the block of
\* the j-th continuous column holds its mapped name, then one lag name per
\* lag in configured order, then rolling_mean, rolling_std, rolling_min,
\* rolling_max per window in configured order; the mapped names of the
\* boolean columns follow in declared order.
C18_EnumerationOrder ==
    EnumerationReturned =>
        LET f     == out.feature_columns
            cc    == config.schema.continuous_columns
            bc    == config.schema.boolean_columns
            lags  == config.schema.lag_seconds
            wins  == config.schema.rolling_windows
            block == 1 + Len(lags) + 4 * Len(wins)
            stats == <<"mean", "std", "min", "max">>
        IN  /\ Len(f) = Len(cc) * block + Len(bc)
            /\ \A j \in 1..Len(cc) :
                  LET at == (j - 1) * block
                      m  == Resolved(cc[j])
                  IN  /\ f[at + 1] = m
                      /\ \A l \in 1..Len(lags) :
                            f[at + 1 + l] = m \o "_lag_" \o ToString(lags[l]) \o "s"
                      /\ \A w \in 1..Len(wins) : \A k \in 1..4 :
                            f[at + 1 + Len(lags) + 4 * (w - 1) + k]
                              = m \o "_rolling_" \o stats[k] \o "_" \o ToString(wins[w])
            /\ \A b \in 1..Len(bc) : f[Len(cc) * block + b] = Resolved(bc[b])

\* get_all_feature_columns returned the names of two continuous columns,
\* one of them renamed, with two lags and two windows each, and of a
\* boolean column.
C18_Witness ==
    /\ EnumerationReturned
    /\ config.schema.continuous_columns = <<"temp_raw", "rpm">>
    /\ config.schema.column_mapping = ("temp_raw" :> "temperature")
    /\ config.schema.lag_seconds = <<300, 60>>
    /\ config.schema.rolling_windows = <<5, 2>>
    /\ config.schema.boolean_columns = <<"pump_status">>
    /\ Len(out.feature_columns) = 23
    /\ out.feature_columns[12] = "rpm"

\* C19 as stated: get_mapped_column applied to a name it returned gives
\* that name back.
C19_MappingIdempotent ==
    pc = "remapped" => out.name = args.original_name

\* C20 as stated: a configuration that a FeatureEngineer is built from has
\* a non-empty target column and declares at least one continuous or
\* boolean column.
C20_InvalidSchemaRejected ==
    pc = "engineer" =>
        /\ config.schema.target_column # ""
        /\ ~(config.schema.continuous_columns = <<>>
               /\ config.schema.boolean_columns = <<>>)

\* C21 as stated: in every schema that create_default_config has built,
\* the target column and the timestamp column, under their raw and their
\* mapped names, are neither continuous nor boolean columns.
C21_TargetNotDeclared ==
    pc # "new" =>
        LET declared == Range(config.schema.continuous_columns)
                        \cup Range(config.schema.boolean_columns)
            special  == {config.schema.target_column, config.schema.timestamp_column}
        IN  (special \cup {Resolved(c) : c \in special})
                \cap (declared \cup {Resolved(c) : c \in declared}) = {}

\* C22 as stated: a feature-name collision is reported as a configuration
\* error and the call fails instead of overwriting a column.  Here the
\* input table holds a column named hour and a timestamp, so that the name
\* the time-based stage derives is the name of an existing column: once
\* that stage has been reached the call has failed with ConfigurationError.
C22_CollisionReported ==
    ( /\ args.entry = "engineer_features"
      /\ HasColumn(args.df, "hour")
      /\ HasColumn(args.df, config.schema.timestamp_column)
      /\ pc \notin {"idle", "rename", "time"} )
        => pc = "error" /\ err = "ConfigurationError"

\* select_features was called with a method name it does not know.
UnknownMethodCall ==
    args.entry = "select_features" /\ args.method \notin {"f_classif", "mutual_info"}

\* C23 as stated: select_features with an unrecognized test name fails with
\* ConfigurationError before any scoring, and leaves feature_selector and
\* the input table unchanged.
C23_UnknownMethodConfigurationError ==
    UnknownMethodCall =>
        /\ pc = "error" /\ err = "ConfigurationError"
        /\ snap.scores = <<>>
        /\ feature_selector = NoSelector
        /\ df = args.df

\* C23 amended: select_features with an unrecognized test name, on a table
\* that holds the candidate columns and the target, fails with ValueError;
\* no score was computed, nothing is returned, and feature_selector (None
\* before the call) and the input table are unchanged.
C23_UnknownMethodValueError ==
    ( /\ UnknownMethodCall
      /\ \A j \in 1..Len(snap.candidates) : HasColumn(args.df, snap.candidates[j])
      /\ HasColumn(args.df, config.schema.target_column) ) =>
        /\ pc = "error" /\ err = "ValueError"
        /\ snap.scores = <<>>
        /\ out = NoOut
        /\ feature_selector = NoSelector
        /\ df = args.df

\* select_features("chi2") on a table of several rows with two candidates
\* has failed with ValueError.
C23_Witness ==
    /\ UnknownMethodCall
    /\ args.method = "chi2"
    /\ Len(snap.candidates) = 2
    /\ NRows(args.df) >= 2
    /\ pc = "error" /\ err = "ValueError"

\* What select_features gave the call of engineer_features that is recorded
\* in snap (meaningful when snap.selector_k >= 0, i.e. the Selector ran).
SelectorOutcome ==
    select_features(config, NoSelector, snap.cleaned, config.schema.target_column,
                    snap.candidates, snap.selector_k, "f_classif", snap.scores)

\* The time-based generator fails on the table of the call.
GeneratorFails ==
    TimeFails(config, RenameColumns(args.df, config.schema.column_mapping))

\* C24: a failure of a generator or of the Selector aborts the call of
\* engineer_features: once the failing stage has been reached the call has
\* ended with the error that stage raised, no later stage has run (stages
\* ends with the last stage before the failure, or with the Selector), and
\* no (table, feature list) is returned.  A call ends in an error only for
\* such a failure, and a call that returns has raised no error.
C24_FailureAborts ==
    args.entry = "engineer_features" =>
        /\ (GeneratorFails /\ pc \notin {"idle", "rename", "time"}) =>
              /\ pc = "error" /\ err = "ValueError"
              /\ stages = <<"rename">>
              /\ out = NoOut
        /\ (snap.selector_k >= 0 /\ SelectorOutcome.err # "none") =>
              /\ pc = "error" /\ err = SelectorOutcome.err
              /\ stages[Len(stages)] = "select"
              /\ out = NoOut
        /\ pc = "error" =>
              GeneratorFails \/ (snap.selector_k >= 0 /\ SelectorOutcome.err # "none")
        /\ pc = "done" => err = "none"

\* A call of engineer_features has ended in the time-based generator, on a
\* table whose second timestamp is not a date.
C24_Witness ==
    /\ args.entry = "engineer_features"
    /\ GeneratorFails
    /\ pc = "error" /\ err = "ValueError"
    /\ stages = <<"rename">>
    /\ out = NoOut

\* A second call of engineer_features, with the arguments of the first, has ended.
CalledAgain ==
    /\ args.entry = "engineer_features"
    /\ earlier.pc # "none"
    /\ earlier.args = args
    /\ pc \in {"done", "error"}

C26_GeneratorPure ==
    (args.entry \in Range(GeneratorNames) /\ pc = "done") => args.df = args.given

\* The rows max(1, i-w+1)..i of a table (rows are numbered from 1 here),
\* and those of them where series s holds a value.
TrailingRows(i, w) == {j \in 1..i : j >= Max({1, i - w + 1})}

PresentIn(s, i, w) == {j \in TrailingRows(i, w) : s[j] # NaN}

\* C27: after the rolling stage, for every continuous column in the table,
\* every configured window w and every row i: rolling mean, min and max are
\* defined exactly when rows max(1, i-w+1)..i hold at least one present
\* value, and are then the mean (rounded down), the least and the greatest
\* of the present values; rolling std is missing exactly when those rows
\* hold fewer than two present values, so it is never zero for one sample.
C27_RollingWindows ==
    RollingDone =>
        \A c \in 1..Len(config.schema.continuous_columns) :
            LET col == Resolved(config.schema.continuous_columns[c])
            IN  HasColumn(df, col) =>
                \A l \in 1..Len(config.schema.rolling_windows) :
                    LET w    == config.schema.rolling_windows[l]
                        s    == df.val[col]
                        mean == df.val[col \o "_rolling_mean_" \o ToString(w)]
                        std  == df.val[col \o "_rolling_std_" \o ToString(w)]
                        mn   == df.val[col \o "_rolling_min_" \o ToString(w)]
                        mx   == df.val[col \o "_rolling_max_" \o ToString(w)]
                    IN  \A i \in 1..NRows(df) :
                          LET V == PresentIn(s, i, w)
                          IN  /\ V = {} => mean[i] = NaN /\ mn[i] = NaN /\ mx[i] = NaN
                              /\ V # {} =>
                                    /\ mean[i] = SumAt(s, V) \div Cardinality(V)
                                    /\ mn[i] \in {s[j] : j \in V}
                                    /\ \A j \in V : mn[i] <= s[j]
                                    /\ mx[i] \in {s[j] : j \in V}
                                    /\ \A j \in V : mx[i] >= s[j]
                              /\ (std[i] = NaN) <=> (Cardinality(V) < 2)
                              /\ Cardinality(V) = 1 => std[i] # 0

\* The rolling stage made, for a window of 2, a third row whose window has
\* lost the first row and holds one present value (the second row is
\* missing): its mean is that value, not the first row's, and its std is
\* missing; and a table where the window of a row holds two values whose
\* std is defined.
C27_Witness ==
    /\ RollingDone
    /\ HasColumn(df, "temperature_rolling_std_2")
    /\ NRows(df) >= 3
    /\ df.val["temperature"][1] = 0
    /\ df.val["temperature"][2] = NaN
    /\ df.val["temperature"][3] = 2
    /\ df.val["temperature_rolling_mean_2"][3] = 2
    /\ df.val["temperature_rolling_min_2"][3] = 2
    /\ df.val["temperature_rolling_std_2"][3] = NaN
    /\ df.val["temperature_rolling_mean_2"][1] = 0
    /\ df.val["temperature_rolling_std_2"][1] = NaN

\* The domain stage of engineer_features has run.
DomainDone == args.entry = "engineer_features" /\ pc = "clean"

\* C28 as stated: after the domain stage, on a table with a vibration
\* column, vibration_trend is defined at every row: it is the least-squares
\* slope over the trailing window of up to 10 rows, and zero (not missing)
\* where that window holds fewer than two rows, as in the first row.
C28_TrendDefined ==
    (DomainDone /\ HasColumn(df, "vibration")) =>
        \A i \in 1..NRows(df) :
            /\ df.val["vibration_trend"][i] # NaN
            /\ df.val["vibration_trend"][i]
                  = SlopeAt(df.val["vibration"], TrailingRows(i, 10))
            /\ i = 1 => df.val["vibration_trend"][i] = 0

\* The table of the call after the 70% row drop and the two fills, before
\* the last dropna.
FilledBeforeDrop ==
    Bfill(Ffill(DropnaThresh(snap.pre_clean, CleanThresh(snap.pre_clean))))

\* C29: a table returned by engineer_features holds no missing value in
\* any column, and no row that still held a missing value after the
\* forward and backward fill.
C29_NoMissingReturned ==
    EngineerReturned =>
        /\ \A c \in Range(out.df.cols) : \A i \in 1..NRows(out.df) :
              out.df.val[c][i] # NaN
        /\ LET f == FilledBeforeDrop
           IN  \A i \in 1..NRows(f) :
                  (\E c \in Range(f.cols) : f.val[c][i] = NaN)
                      => f.idx[i] \notin Range(out.df.idx)

\* engineer_features returned a table with rows, although the table before
\* cleaning held missing cells in the rows that were kept.
C29_Witness ==
    /\ EngineerReturned
    /\ NRows(out.df) >= 2
    /\ \E i \in 1..NRows(snap.pre_clean) :
          /\ snap.pre_clean.idx[i] \in Range(out.df.idx)
          /\ \E c \in Range(snap.pre_clean.cols) : snap.pre_clean.val[c][i] = NaN

\* C30: select_features changes only the set of columns.  The table it
\* returns holds exactly the selected features, then the target, then the
\* timestamp; it has the rows of the table passed in, in the same order and
\* with the same cells, also the rows that a missing candidate or target
\* kept out of the scoring; and the table passed in is as it was.  The same
\* holds for the Selector inside engineer_features and the cleaned table.
C30_SelectChangesColumnsOnly ==
    /\ (args.entry = "select_features" /\ pc = "done") =>
          /\ out.df.cols = out.feature_columns
                \o <<config.schema.target_column, config.schema.timestamp_column>>
          /\ out.df.idx = args.df.idx
          /\ \A c \in Range(out.df.cols) : out.df.val[c] = args.df.val[c]
          /\ df = args.df
    /\ (EngineerReturned /\ snap.selector_k >= 0) =>
          /\ out.df.cols = out.feature_columns
                \o <<config.schema.target_column, config.schema.timestamp_column>>
          /\ out.df.idx = snap.cleaned.idx
          /\ \A c \in Range(out.df.cols) : out.df.val[c] = snap.cleaned.val[c]

\* select_features returned one of two candidates for a table of 3 rows
\* whose second row misses a candidate: the row is in the returned table.
C30_Witness ==
    /\ args.entry = "select_features" /\ pc = "done"
    /\ Len(snap.candidates) = 2
    /\ Len(out.feature_columns) = 1
    /\ NRows(args.df) = 3
    /\ args.df.val[out.feature_columns[1]][2] = NaN
    /\ NRows(out.df) = 3
    /\ out.df.val[out.feature_columns[1]][2] = NaN

====
